---- MODULE Spec2Model ----
(***************************************************************************)
(* Model of the cycleOptima ESP32 appliance controller (src/main/main.c):  *)
(* the configuration loader, the phase scheduler (app_main, run_phase),    *)
(* the component executor (component_task) and the motor pattern engine    *)
(* (run_motor_task), as FreeRTOS tasks of equal priority over a shared set *)
(* of GPIO lines and a millisecond clock.                                  *)
(*                                                                         *)
(* Time: vTaskDelay(pdMS_TO_TICKS(ms)) blocks the caller for ms            *)
(* milliseconds; GPIO writes and computation take no time.  The clock      *)
(* `now` leaps to the next wake-up time when no task is ready.             *)
(*                                                                         *)
(* Not modelled: the SPIFFS mount, the log output, and timer_logger_task,   *)
(* which only reads the clock and writes no line.  A document's            *)
(* motorConfig always has its "pattern" array, and every member the loader *)
(* dereferences is present.  malloc and xTaskCreate succeed, except in     *)
(* SpecFault, where the heap may be exhausted when run_phase launches a    *)
(* component: a failed malloc makes line 227 store through a null pointer  *)
(* (the CPU exception ends in the panic handler, which halts or reboots),  *)
(* a failed xTaskCreate returns an error code.                             *)
(*                                                                         *)
(* Integers: uint32_t arithmetic is modulo UINT32_MOD.  The machine word   *)
(* is scaled to WordBits bits (the model checker's integers are 32 bits    *)
(* wide), so INT_MAX is 2^(WordBits-1)-1 and a negative JSON integer       *)
(* converts to a value >= 2^(WordBits-1), as in C.                         *)
(***************************************************************************)
EXTENDS Integers, Sequences, FiniteSets, TLC

VARIABLES
    file,            \* what fopen/cJSON_Parse deliver for /spiffs/input.json
    program_phases,  \* Phase* program_phases (after load_json_config)
    NUM_PHASES,      \* int NUM_PHASES
    app,             \* app_main's task: pc, wake-up time, locals of app_main/run_phase
    tasks,           \* the component_task instances created so far, in creation order
    level,           \* the output level of each GPIO line of the registry
    now,             \* the millisecond clock
    mlog             \* history: the vTaskDelay/xTaskCreate calls app_main has made

vars == <<file, program_phases, NUM_PHASES, app, tasks, level, now, mlog>>

----------------------------------------------------------------------------
(* Bounds of the model *)

WordBits == 8
MaxPattern == 2
MaxRepeat == 3
MaxComps == 2
MaxPhases == 2

----------------------------------------------------------------------------
(* main.h, and the types of main.c *)

RETRACTOR_PIN == 7
DRAIN_VALVE_PIN == 6
COLD_VALVE_PIN == 9
DRAIN_PUMP_PIN == 19
HOT_VALVE_PIN == 5
SOFT_VALVE_PIN == 18
MOTOR_ON_PIN == 4
MOTOR_DIRECTION_PIN == 10
NUM_COMPONENTS == 8

\* uint32_t: values are 0 .. UINT32_MOD-1, arithmetic wraps
UINT32_MOD == 2 ^ WordBits
\* int (cJSON's valueint): -INT_MAX-1 .. INT_MAX
INT_MAX == 2 ^ (WordBits - 1) - 1

\* (uint32_t) of an int
ToU32(v) == v % UINT32_MOD

\* uint32_t a + b
AddU32(a, b) == (a + b) % UINT32_MOD

\* a NULL pointer / an absent JSON member: the empty sequence; a present one: <<x>>
NULL == <<>>

\* gpio_set_level's argument for "off" (the lines are active low) and "on"
OFF == 1
ON == 0
\* the state of a line that has not been configured as an output yet
FLOATING == 2

component_states ==
    << [name |-> "Retractor",       pin |-> RETRACTOR_PIN],
       [name |-> "Drain Valve",     pin |-> DRAIN_VALVE_PIN],
       [name |-> "Cold Valve",      pin |-> COLD_VALVE_PIN],
       [name |-> "Drain Pump",      pin |-> DRAIN_PUMP_PIN],
       [name |-> "Hot Valve",       pin |-> HOT_VALVE_PIN],
       [name |-> "Softener Valve",  pin |-> SOFT_VALVE_PIN],
       [name |-> "Motor",           pin |-> MOTOR_ON_PIN],
       [name |-> "Motor Direction", pin |-> MOTOR_DIRECTION_PIN] >>

Pins == {component_states[k].pin : k \in 1..NUM_COMPONENTS}

\* the first entry of component_states whose name is `name`, or -1
map_name_to_pin(name) ==
    LET hits == {k \in 1..NUM_COMPONENTS : component_states[k].name = name}
    IN  IF hits = {} THEN -1
        ELSE component_states[CHOOSE k \in hits : \A h \in hits : k <= h].pin

\* gpio_set_level(pin, val) on the line state lv: an invalid GPIO number is
\* rejected with an error code and no line changes
gpio_set_level(lv, pin, val) ==
    IF pin \in Pins THEN [lv EXCEPT ![pin] = val] ELSE lv

----------------------------------------------------------------------------
(* load_json_config: the cJSON document -> program_phases *)

\* pattern[k] of a motorConfig object (lines 317-324)
LoadPattern(patternObj) ==
    [stepTime  |-> ToU32(patternObj.stepTime),
     direction |-> patternObj.direction,
     pauseTime |-> ToU32(patternObj.pauseTime)]

\* the MotorConfig built from a "motorConfig" member (lines 306-342);
\* documents of the model always carry the "pattern" array
LoadMotorConfig(motorConfigObj) ==
    IF motorConfigObj = NULL THEN NULL
    ELSE << [pattern       |-> [k \in 1..Len(motorConfigObj[1].pattern) |->
                                   LoadPattern(motorConfigObj[1].pattern[k])],
             pattern_count |-> Len(motorConfigObj[1].pattern),
             repeatTimes   |-> IF motorConfigObj[1].repeatTimes = NULL THEN 1
                               ELSE ToU32(motorConfigObj[1].repeatTimes[1])] >>

\* one ComponentInput (lines 295-361)
LoadComponent(compObj) ==
    [compId      |-> compObj.compId,
     pin         |-> map_name_to_pin(compObj.compId),
     start       |-> ToU32(compObj.start),
     duration    |-> ToU32(compObj.duration),
     motorConfig |-> LoadMotorConfig(compObj.motorConfig)]

\* one Phase (lines 282-363)
LoadPhase(phaseObj) ==
    [name           |-> phaseObj.name,
     startTime      |-> ToU32(phaseObj.startTime),
     components     |-> [j \in 1..Len(phaseObj.components) |->
                            LoadComponent(phaseObj.components[j])],
     num_components |-> Len(phaseObj.components)]

\* the whole document (lines 279-363)
LoadPhases(root) == [k \in 1..Len(root) |-> LoadPhase(root[k])]

\* LoadResult that reports success for every file
LoadResultAlways(f) == TRUE

\* load_json_config's return value for the file
LoadResult(f) == f.kind = "json"

----------------------------------------------------------------------------
(* Tasks and time *)

PHASE_BUFFER_MS == 50
LOGGER_EXIT_MS == 100

AppStopped == app.pc \in {"idle", "returned", "panic"}

\* app_main's task is ready to run
AppReady == ~AppStopped /\ app.wake <= now

\* the panic handler has stopped the CPU
Halted == app.pc = "panic"

\* component task t is ready to run
TaskReady(t) == ~Halted /\ tasks[t].pc # "done" /\ tasks[t].wake <= now

\* the wake-up times of the tasks blocked in vTaskDelay
WakeTimes ==
    (IF ~AppStopped /\ app.wake > now THEN {app.wake} ELSE {})
    \cup {tasks[t].wake : t \in {u \in 1..Len(tasks) :
                                  ~Halted /\ tasks[u].pc # "done" /\ tasks[u].wake > now}}

\* a history entry: a gpio_set_level or vTaskDelay call at a source line
GpioEvent(line, pin, val) ==
    [op |-> "gpio", line |-> line, pin |-> pin, val |-> val, at |-> now]
DelayEvent(line, ms) ==
    [op |-> "delay", line |-> line, pin |-> 0, val |-> ms, at |-> now]
CreateEvent(line, phase) ==
    [op |-> "create", line |-> line, pin |-> 0, val |-> phase, at |-> now]
\* an xTaskCreate call that returned errCOULD_NOT_ALLOCATE_REQUIRED_MEMORY
CreateFailedEvent(line, phase) ==
    [op |-> "create_failed", line |-> line, pin |-> 0, val |-> phase, at |-> now]

----------------------------------------------------------------------------
(* app_main *)

\* lines 380-383: load the configuration, return on failure
LoadConfig ==
    /\ app.pc = "load"
    /\ IF LoadResult(file)
       THEN /\ program_phases' = LoadPhases(file.root)
            /\ NUM_PHASES' = Len(file.root)
            /\ app' = [app EXCEPT !.pc = "gpio_init"]
       ELSE /\ app' = [app EXCEPT !.pc = "returned"]
            /\ UNCHANGED <<program_phases, NUM_PHASES>>
    /\ UNCHANGED <<file, tasks, level, now, mlog>>

\* GpioInit that leaves out the two motor lines
GpioInitValvesOnly ==
    /\ app.pc = "gpio_init"
    /\ level' = [p \in Pins |->
                    IF p \in {MOTOR_ON_PIN, MOTOR_DIRECTION_PIN} THEN level[p] ELSE OFF]
    /\ app' = [app EXCEPT !.pc = "phase_head", !.i = 0, !.last_phase_start = 0]
    /\ UNCHANGED <<file, program_phases, NUM_PHASES, tasks, now, mlog>>

\* lines 385-410: every registry pin becomes an output driven to 1 (off)
GpioInit ==
    /\ app.pc = "gpio_init"
    /\ level' = [p \in Pins |-> OFF]
    /\ app' = [app EXCEPT !.pc = "phase_head", !.i = 0, !.last_phase_start = 0]
    /\ UNCHANGED <<file, program_phases, NUM_PHASES, tasks, now, mlog>>

\* ThisDelay that never waits
ThisDelayNone(startTime, last_phase_start) == 0

\* ThisDelay without the guard: the uint32_t difference
ThisDelayUnguarded(startTime, last_phase_start) ==
    (startTime - last_phase_start) % UINT32_MOD

\* lines 415-418
ThisDelay(startTime, last_phase_start) ==
    IF startTime > last_phase_start THEN startTime - last_phase_start ELSE 0

\* lines 411-422 (loop test, inter-phase delay) and 437-438 (loop exit)
PhaseHead ==
    /\ app.pc = "phase_head"
    /\ AppReady
    /\ IF app.i < NUM_PHASES
       THEN LET p == program_phases[app.i + 1]
                this_delay == ThisDelay(p.startTime, app.last_phase_start)
            IN  /\ app' = [app EXCEPT !.pc = "run_phase",
                                      !.this_delay = this_delay,
                                      !.wake = now + this_delay,
                                      !.phase_duration = 0,
                                      !.j = 0]
                /\ mlog' = IF this_delay > 0
                           THEN Append(mlog, DelayEvent(421, this_delay))
                           ELSE mlog
       ELSE /\ app' = [app EXCEPT !.pc = "post", !.wake = now + LOGGER_EXIT_MS]
            /\ mlog' = Append(mlog, DelayEvent(438, LOGGER_EXIT_MS))
    /\ UNCHANGED <<file, program_phases, NUM_PHASES, tasks, level, now>>

\* FinishTime that leaves out the start offset
FinishTimeNoStart(comp) == comp.duration

\* line 220
FinishTime(comp) == AddU32(comp.start, comp.duration)

\* PhaseDurationUpdate that keeps the last finish time, not the largest
PhaseDurationLast(phase_duration, finish_time) == finish_time

\* lines 221-223
PhaseDurationUpdate(phase_duration, finish_time) ==
    IF finish_time > phase_duration THEN finish_time ELSE phase_duration

\* lines 226-233 and the entry state of component_task
NewTask(comp, phase, j) ==
    [c |-> [compId |-> comp.compId, pin |-> comp.pin, start |-> comp.start,
            duration |-> comp.duration, motorConfig |-> comp.motorConfig],
     pc |-> "start", wake |-> now,
     total_runtime |-> 0, repeat |-> 0, i |-> 0, slice |-> 0,
     phase |-> phase, comp |-> j, created |-> now, log |-> <<>>]

\* run_phase, one iteration of the loop of lines 218-248
RunPhaseSpawn ==
    /\ app.pc = "run_phase"
    /\ AppReady
    /\ app.j < program_phases[app.i + 1].num_components
    /\ LET comp == program_phases[app.i + 1].components[app.j + 1]
       IN  /\ app' = [app EXCEPT
                        !.phase_duration =
                            PhaseDurationUpdate(app.phase_duration, FinishTime(comp)),
                        !.j = app.j + 1]
           /\ tasks' = Append(tasks, NewTask(comp, app.i, app.j))
           /\ mlog' = Append(mlog, CreateEvent(240, app.i))
    /\ UNCHANGED <<file, program_phases, NUM_PHASES, level, now>>

\* run_phase, one iteration of the loop in which xTaskCreate (line 240) fails:
\* the return value is not looked at, no task exists, the argument is never
\* freed, and the loop goes on
XTaskCreateFails ==
    /\ app.pc = "run_phase"
    /\ AppReady
    /\ app.j < program_phases[app.i + 1].num_components
    /\ LET comp == program_phases[app.i + 1].components[app.j + 1]
       IN  /\ app' = [app EXCEPT
                        !.phase_duration =
                            PhaseDurationUpdate(app.phase_duration, FinishTime(comp)),
                        !.j = app.j + 1]
           /\ mlog' = Append(mlog, CreateFailedEvent(240, app.i))
    /\ UNCHANGED <<file, program_phases, NUM_PHASES, tasks, level, now>>

\* the panic handler's configurations: stop the CPU, or restart the chip
PanicOutcomes == {"halt", "reboot"}

\* run_phase, one iteration of the loop in which malloc (line 226) returns NULL:
\* line 227 stores through the null pointer, the CPU raises an exception and
\* the panic handler stops every task (the lines keep their levels) or
\* restarts the chip (the lines float, app_main starts again)
MallocFails ==
    /\ app.pc = "run_phase"
    /\ AppReady
    /\ app.j < program_phases[app.i + 1].num_components
    /\ \E outcome \in PanicOutcomes :
          IF outcome = "halt"
          THEN /\ app' = [app EXCEPT !.pc = "panic"]
               /\ UNCHANGED <<program_phases, NUM_PHASES, tasks, level, now, mlog>>
          ELSE /\ program_phases' = <<>>
               /\ NUM_PHASES' = 0
               /\ app' = [pc |-> "load", wake |-> 0, i |-> 0, this_delay |-> 0,
                          last_phase_start |-> 0, phase_duration |-> 0, j |-> 0]
               /\ tasks' = <<>>
               /\ level' = [p \in Pins |-> FLOATING]
               /\ now' = 0
               /\ mlog' = <<>>
    /\ UNCHANGED file

\* PhaseSleep without the buffer
PhaseSleepNoBuffer(phase_duration) == phase_duration

\* line 253's argument
PhaseSleep(phase_duration) == AddU32(phase_duration, PHASE_BUFFER_MS)

\* run_phase, line 253
RunPhaseWait ==
    /\ app.pc = "run_phase"
    /\ AppReady
    /\ app.j = program_phases[app.i + 1].num_components
    /\ app' = [app EXCEPT !.pc = "phase_done",
                          !.wake = now + PhaseSleep(app.phase_duration)]
    /\ mlog' = Append(mlog, DelayEvent(253, PhaseSleep(app.phase_duration)))
    /\ UNCHANGED <<file, program_phases, NUM_PHASES, tasks, level, now>>

\* lines 429-434: run_phase has returned
PhaseDone ==
    /\ app.pc = "phase_done"
    /\ AppReady
    /\ app' = [app EXCEPT !.pc = "phase_head",
                          !.last_phase_start = program_phases[app.i + 1].startTime,
                          !.i = app.i + 1]
    /\ UNCHANGED <<file, program_phases, NUM_PHASES, tasks, level, now, mlog>>

\* lines 438-440: "All phases complete"
PostDelay ==
    /\ app.pc = "post"
    /\ AppReady
    /\ app' = [app EXCEPT !.pc = "idle"]
    /\ UNCHANGED <<file, program_phases, NUM_PHASES, tasks, level, now, mlog>>

\* lines 441-443: the idle loop changes nothing
Idle ==
    /\ app.pc = "idle"
    /\ UNCHANGED vars

----------------------------------------------------------------------------
(* component_task *)

Log(t, e) == Append(tasks[t].log, e)

\* TaskStart without the wait for the start offset
TaskStartNoWait(t) ==
    /\ tasks[t].pc = "start"
    /\ TaskReady(t)
    /\ tasks' = [tasks EXCEPT
          ![t].pc = IF tasks[t].c.motorConfig # NULL THEN "motor_on" ELSE "simple_on"]
    /\ UNCHANGED <<file, program_phases, NUM_PHASES, app, level, now, mlog>>

\* lines 188-197: wait for the start offset, then take the motor or the simple branch
TaskStart(t) ==
    /\ tasks[t].pc = "start"
    /\ TaskReady(t)
    /\ LET c == tasks[t].c
       IN  tasks' = [tasks EXCEPT
              ![t].pc = IF c.motorConfig # NULL THEN "motor_on" ELSE "simple_on",
              ![t].wake = IF c.start > 0 THEN now + c.start ELSE now,
              ![t].log = IF c.start > 0 THEN Log(t, DelayEvent(190, c.start))
                         ELSE tasks[t].log]
    /\ UNCHANGED <<file, program_phases, NUM_PHASES, app, level, now, mlog>>

\* SimpleOn that aborts the task when gpio_set_level reports an error
SimpleOnChecked(t) ==
    /\ tasks[t].pc = "simple_on"
    /\ TaskReady(t)
    /\ tasks[t].c.pin \in Pins
    /\ level' = gpio_set_level(level, tasks[t].c.pin, ON)
    /\ tasks' = [tasks EXCEPT
          ![t].pc = "simple_off",
          ![t].wake = now + tasks[t].c.duration,
          ![t].log = Log(t, GpioEvent(199, tasks[t].c.pin, ON))
                     \o <<DelayEvent(203, tasks[t].c.duration)>>]
    /\ UNCHANGED <<file, program_phases, NUM_PHASES, app, now, mlog>>

\* lines 199-203: ON, then sleep for the duration
SimpleOn(t) ==
    /\ tasks[t].pc = "simple_on"
    /\ TaskReady(t)
    /\ LET c == tasks[t].c
       IN  /\ level' = gpio_set_level(level, c.pin, ON)
           /\ tasks' = [tasks EXCEPT
                 ![t].pc = "simple_off",
                 ![t].wake = now + c.duration,
                 ![t].log = Log(t, GpioEvent(199, c.pin, ON))
                            \o <<DelayEvent(203, c.duration)>>]
    /\ UNCHANGED <<file, program_phases, NUM_PHASES, app, now, mlog>>

\* SimpleOff that switches every line of the registry off
SimpleOffAllLines(t) ==
    /\ tasks[t].pc = "simple_off"
    /\ TaskReady(t)
    /\ level' = [p \in Pins |-> OFF]
    /\ tasks' = [tasks EXCEPT
          ![t].pc = "done",
          ![t].log = Log(t, GpioEvent(204, tasks[t].c.pin, OFF))]
    /\ UNCHANGED <<file, program_phases, NUM_PHASES, app, now, mlog>>

\* lines 204-212: OFF, free the argument, delete the task
SimpleOff(t) ==
    /\ tasks[t].pc = "simple_off"
    /\ TaskReady(t)
    /\ LET c == tasks[t].c
       IN  /\ level' = gpio_set_level(level, c.pin, OFF)
           /\ tasks' = [tasks EXCEPT
                 ![t].pc = "done",
                 ![t].log = Log(t, GpioEvent(204, c.pin, OFF))]
    /\ UNCHANGED <<file, program_phases, NUM_PHASES, app, now, mlog>>

----------------------------------------------------------------------------
(* run_motor_task *)

RECURSIVE RepeatLoop(_, _, _)
RECURSIVE StepLoop(_, _, _, _)

\* the test of the outer for loop (line 137) at `repeat`: the place the engine
\* reaches next, the step to run (line 142) or the final stop (line 181)
RepeatLoop(c, repeat, total_runtime) ==
    IF repeat < c.motorConfig[1].repeatTimes /\ total_runtime < c.duration
    THEN StepLoop(c, repeat, 0, total_runtime)
    ELSE [pc |-> "motor_stop", repeat |-> repeat, i |-> 0]

\* the test of the inner for loop (line 141) at step i
StepLoop(c, repeat, i, total_runtime) ==
    IF i < c.motorConfig[1].pattern_count /\ total_runtime < c.duration
    THEN [pc |-> "motor_step", repeat |-> repeat, i |-> i]
    ELSE RepeatLoop(c, AddU32(repeat, 1), total_runtime)

\* StepDuration without the clip to the remaining budget
StepDurationUnclipped(stepTime, total_runtime, target_duration) == stepTime

\* lines 152-153
StepDuration(stepTime, total_runtime, target_duration) ==
    IF AddU32(stepTime, total_runtime) > target_duration
    THEN (target_duration - total_runtime) % UINT32_MOD
    ELSE stepTime

\* lines 166-167
PauseDuration(pauseTime, total_runtime, target_duration) ==
    IF AddU32(pauseTime, total_runtime) > target_duration
    THEN (target_duration - total_runtime) % UINT32_MOD
    ELSE pauseTime

\* line 145-146: the level written to the direction line
DirectionLevel(direction) == IF direction = "cw" THEN 0 ELSE 1

\* lines 127-137: motor ON, total_runtime = 0, enter the loops
MotorOn(t) ==
    /\ tasks[t].pc = "motor_on"
    /\ TaskReady(t)
    /\ LET c == tasks[t].c
           nxt == RepeatLoop(c, 0, 0)
       IN  /\ level' = gpio_set_level(level, c.pin, ON)
           /\ tasks' = [tasks EXCEPT
                 ![t].pc = nxt.pc, ![t].repeat = nxt.repeat, ![t].i = nxt.i,
                 ![t].total_runtime = 0,
                 ![t].log = Log(t, GpioEvent(131, c.pin, ON))]
    /\ UNCHANGED <<file, program_phases, NUM_PHASES, app, now, mlog>>

\* lines 142-154: set the direction, run for the (clipped) step time
MotorStep(t) ==
    /\ tasks[t].pc = "motor_step"
    /\ TaskReady(t)
    /\ LET c == tasks[t].c
           pattern == c.motorConfig[1].pattern[tasks[t].i + 1]
           step_duration == StepDuration(pattern.stepTime, tasks[t].total_runtime,
                                         c.duration)
       IN  /\ level' = gpio_set_level(level, MOTOR_DIRECTION_PIN,
                                      DirectionLevel(pattern.direction))
           /\ tasks' = [tasks EXCEPT
                 ![t].pc = "motor_ran",
                 ![t].slice = step_duration,
                 ![t].wake = now + step_duration,
                 ![t].log = Log(t, GpioEvent(146, MOTOR_DIRECTION_PIN,
                                             DirectionLevel(pattern.direction)))
                            \o <<DelayEvent(154, step_duration)>>]
    /\ UNCHANGED <<file, program_phases, NUM_PHASES, app, now, mlog>>

\* MotorRan without the break of lines 156-157
MotorRanNoBreak(t) ==
    /\ tasks[t].pc = "motor_ran"
    /\ TaskReady(t)
    /\ LET c == tasks[t].c
           pattern == c.motorConfig[1].pattern[tasks[t].i + 1]
           total_runtime == AddU32(tasks[t].total_runtime, tasks[t].slice)
           pause_duration == PauseDuration(pattern.pauseTime, total_runtime, c.duration)
           cont == StepLoop(c, tasks[t].repeat, tasks[t].i + 1, total_runtime)
       IN  IF pattern.pauseTime > 0
           THEN /\ level' = gpio_set_level(level, c.pin, OFF)
                /\ tasks' = [tasks EXCEPT
                      ![t].total_runtime = total_runtime,
                      ![t].pc = "motor_paused",
                      ![t].slice = pause_duration,
                      ![t].wake = now + pause_duration,
                      ![t].log = Log(t, GpioEvent(162, c.pin, OFF))
                                 \o <<DelayEvent(168, pause_duration)>>]
           ELSE /\ tasks' = [tasks EXCEPT
                      ![t].total_runtime = total_runtime,
                      ![t].pc = cont.pc, ![t].repeat = cont.repeat, ![t].i = cont.i]
                /\ level' = level
    /\ UNCHANGED <<file, program_phases, NUM_PHASES, app, now, mlog>>

\* lines 155-168: account the run; stop at the budget, else pause (motor OFF) or
\* go on with the next step
MotorRan(t) ==
    /\ tasks[t].pc = "motor_ran"
    /\ TaskReady(t)
    /\ LET c == tasks[t].c
           pattern == c.motorConfig[1].pattern[tasks[t].i + 1]
           total_runtime == AddU32(tasks[t].total_runtime, tasks[t].slice)
           pause_duration == PauseDuration(pattern.pauseTime, total_runtime, c.duration)
           brk == RepeatLoop(c, AddU32(tasks[t].repeat, 1), total_runtime)
           cont == StepLoop(c, tasks[t].repeat, tasks[t].i + 1, total_runtime)
       IN  IF total_runtime >= c.duration
           THEN /\ tasks' = [tasks EXCEPT
                      ![t].total_runtime = total_runtime,
                      ![t].pc = brk.pc, ![t].repeat = brk.repeat, ![t].i = brk.i]
                /\ level' = level
           ELSE IF pattern.pauseTime > 0
           THEN /\ level' = gpio_set_level(level, c.pin, OFF)
                /\ tasks' = [tasks EXCEPT
                      ![t].total_runtime = total_runtime,
                      ![t].pc = "motor_paused",
                      ![t].slice = pause_duration,
                      ![t].wake = now + pause_duration,
                      ![t].log = Log(t, GpioEvent(162, c.pin, OFF))
                                 \o <<DelayEvent(168, pause_duration)>>]
           ELSE /\ tasks' = [tasks EXCEPT
                      ![t].total_runtime = total_runtime,
                      ![t].pc = cont.pc, ![t].repeat = cont.repeat, ![t].i = cont.i]
                /\ level' = level
    /\ UNCHANGED <<file, program_phases, NUM_PHASES, app, now, mlog>>

\* MotorPaused that drives the motor back ON whatever the budget
MotorPausedAlwaysOn(t) ==
    /\ tasks[t].pc = "motor_paused"
    /\ TaskReady(t)
    /\ LET c == tasks[t].c
           total_runtime == AddU32(tasks[t].total_runtime, tasks[t].slice)
           cont == StepLoop(c, tasks[t].repeat, tasks[t].i + 1, total_runtime)
       IN  /\ level' = gpio_set_level(level, c.pin, ON)
           /\ tasks' = [tasks EXCEPT
                 ![t].total_runtime = total_runtime,
                 ![t].pc = cont.pc, ![t].repeat = cont.repeat, ![t].i = cont.i,
                 ![t].log = Log(t, GpioEvent(173, c.pin, ON))]
    /\ UNCHANGED <<file, program_phases, NUM_PHASES, app, now, mlog>>

\* lines 169-176: account the pause; motor back ON if budget remains; next step
MotorPaused(t) ==
    /\ tasks[t].pc = "motor_paused"
    /\ TaskReady(t)
    /\ LET c == tasks[t].c
           total_runtime == AddU32(tasks[t].total_runtime, tasks[t].slice)
           cont == StepLoop(c, tasks[t].repeat, tasks[t].i + 1, total_runtime)
       IN  /\ level' = IF total_runtime < c.duration
                       THEN gpio_set_level(level, c.pin, ON) ELSE level
           /\ tasks' = [tasks EXCEPT
                 ![t].total_runtime = total_runtime,
                 ![t].pc = cont.pc, ![t].repeat = cont.repeat, ![t].i = cont.i,
                 ![t].log = IF total_runtime < c.duration
                            THEN Log(t, GpioEvent(173, c.pin, ON))
                            ELSE tasks[t].log]
    /\ UNCHANGED <<file, program_phases, NUM_PHASES, app, now, mlog>>

\* MotorStop without the final gpio_set_level
MotorStopNoWrite(t) ==
    /\ tasks[t].pc = "motor_stop"
    /\ TaskReady(t)
    /\ tasks' = [tasks EXCEPT ![t].pc = "done"]
    /\ UNCHANGED <<file, program_phases, NUM_PHASES, app, level, now, mlog>>

\* lines 180-184 and 210-212: motor OFF, free the argument, delete the task
MotorStop(t) ==
    /\ tasks[t].pc = "motor_stop"
    /\ TaskReady(t)
    /\ LET c == tasks[t].c
       IN  /\ level' = gpio_set_level(level, c.pin, OFF)
           /\ tasks' = [tasks EXCEPT
                 ![t].pc = "done",
                 ![t].log = Log(t, GpioEvent(181, c.pin, OFF))]
    /\ UNCHANGED <<file, program_phases, NUM_PHASES, app, now, mlog>>

----------------------------------------------------------------------------
(* The clock *)

SetMin(S) == CHOOSE x \in S : \A y \in S : x <= y

\* every task is blocked: the clock moves to the earliest wake-up time
Advance ==
    /\ ~AppReady
    /\ \A t \in 1..Len(tasks) : ~TaskReady(t)
    /\ WakeTimes # {}
    /\ now' = SetMin(WakeTimes)
    /\ UNCHANGED <<file, program_phases, NUM_PHASES, app, tasks, level, mlog>>

----------------------------------------------------------------------------
(* The configuration documents the model loads *)

\* all sequences over S of length 0..n
RECURSIVE SeqsUpTo(_, _)
SeqsUpTo(S, n) ==
    IF n = 0 THEN {<<>>}
    ELSE LET shorter == SeqsUpTo(S, n - 1)
         IN  shorter \cup {Append(q, x) : q \in {r \in shorter : Len(r) = n - 1}, x \in S}

JsonFile(root) == [kind |-> "json", root |-> root]
NoFile == [kind |-> "nofile", root |-> <<>>]
BadJson == [kind |-> "badjson", root |-> <<>>]

StepObj(stepTime, direction, pauseTime) ==
    [stepTime |-> stepTime, direction |-> direction, pauseTime |-> pauseTime]
MotorObj(pattern, repeatTimes) ==
    << [pattern |-> pattern, repeatTimes |-> repeatTimes] >>
CompObj(compId, start, duration, motorConfig) ==
    [compId |-> compId, start |-> start, duration |-> duration,
     motorConfig |-> motorConfig]
PhaseObj(name, startTime, components) ==
    [name |-> name, startTime |-> startTime, components |-> components]

\* --- one motor instruction, values as the interface allows them (>= 0) ---
MaxDuration == 4
StepTimes == {0, 1, 2}
PauseTimes == {0, 2}
Directions == {"cw", "ccw"}
MotorSteps == {StepObj(s, d, p) : s \in StepTimes, d \in Directions, p \in PauseTimes}
\* duration 2500, pattern [{stepTime 1000, cw, pauseTime 500}], repeatTimes 3,
\* in units of 500 ms
BudgetExactComp == CompObj("Motor", 0, 5, MotorObj(<<StepObj(2, "cw", 1)>>, <<3>>))
MotorFiles ==
    {JsonFile(<<PhaseObj("Wash", 0,
                  <<CompObj("Motor", 0, dur, MotorObj(pat, <<rep>>))>>)>>) :
        pat \in SeqsUpTo(MotorSteps, MaxPattern),
        rep \in 0..MaxRepeat,
        dur \in 0..MaxDuration}
    \cup {JsonFile(<<PhaseObj("Wash", 0, <<BudgetExactComp>>)>>)}

InitWith(files) ==
    /\ file \in files
    /\ program_phases = <<>>
    /\ NUM_PHASES = 0
    /\ app = [pc |-> "load", wake |-> 0, i |-> 0, this_delay |-> 0,
              last_phase_start |-> 0, phase_duration |-> 0, j |-> 0]
    /\ tasks = <<>>
    /\ level = [p \in Pins |-> FLOATING]
    /\ now = 0
    /\ mlog = <<>>

AppNext ==
    \/ LoadConfig
    \/ GpioInit
    \/ PhaseHead
    \/ RunPhaseSpawn
    \/ RunPhaseWait
    \/ PhaseDone
    \/ PostDelay
    \/ Idle
    \/ Advance

MotorTaskNext ==
    \/ \E t \in 1..Len(tasks) : TaskStart(t)
    \/ \E t \in 1..Len(tasks) : MotorOn(t)
    \/ \E t \in 1..Len(tasks) : MotorStep(t)
    \/ \E t \in 1..Len(tasks) : MotorRan(t)
    \/ \E t \in 1..Len(tasks) : MotorPaused(t)
    \/ \E t \in 1..Len(tasks) : MotorStop(t)

SimpleTaskNext ==
    \/ \E t \in 1..Len(tasks) : SimpleOn(t)
    \/ \E t \in 1..Len(tasks) : SimpleOff(t)

\* a program of one motor instruction
InitMotor == InitWith(MotorFiles)
NextMotor == AppNext \/ MotorTaskNext
SpecMotor == InitMotor /\ [][NextMotor]_vars

\* --- one motor instruction over the whole uint32_t range: a negative JSON
\* integer n is stored as the uint32_t UINT32_MOD + n ---
WideTimes == {0, 1, -1}
WideDurations == {1, 2, -2}
WideSteps == {StepObj(s, "cw", p) : s \in WideTimes \ {0}, p \in WideTimes}
WideFiles ==
    {JsonFile(<<PhaseObj("Wash", 0,
                  <<CompObj("Motor", 0, dur, MotorObj(pat, <<rep>>))>>)>>) :
        pat \in SeqsUpTo(WideSteps, MaxPattern),
        rep \in 0..MaxRepeat,
        dur \in WideDurations}

InitWide == InitWith(WideFiles)
SpecWide == InitWide /\ [][NextMotor]_vars

\* --- one phase of simple and motor instructions, values up to INT_MAX ---
PhaseStartOffsets == {0, 1, INT_MAX}
PhaseDurations == {1, INT_MAX}
PhaseComps ==
    {CompObj(id, s, d, NULL) :
        id \in {"Cold Valve", "Hot Valve"}, s \in PhaseStartOffsets, d \in PhaseDurations}
    \cup {CompObj("Motor", s, d, MotorObj(<<StepObj(1, "cw", 1)>>, <<2>>)) :
             s \in PhaseStartOffsets, d \in PhaseDurations}
PhaseFiles ==
    {JsonFile(<<PhaseObj("Fill", 0, comps)>>) : comps \in SeqsUpTo(PhaseComps, MaxComps)}

InitPhase == InitWith(PhaseFiles)
Next == AppNext \/ MotorTaskNext \/ SimpleTaskNext
SpecPhase == InitPhase /\ [][Next]_vars

\* --- one phase of instructions for distinct and for shared lines: a simple
\* instruction may name the motor direction line, a motor instruction may
\* name any actuator as its enable line ---
ConcurrentSimple ==
    {CompObj(id, s, 2, NULL) : id \in {"Cold Valve", "Motor Direction"}, s \in {0, 1}}
ConcurrentMotor ==
    {CompObj(id, 0, 3, MotorObj(<<StepObj(1, d1, 0), StepObj(1, d2, 1)>>, <<1>>)) :
        id \in {"Motor", "Drain Pump"}, d1 \in Directions, d2 \in Directions}
ConcurrentFiles ==
    {JsonFile(<<PhaseObj("Wash", 0, comps)>>) :
        comps \in SeqsUpTo(ConcurrentSimple \cup ConcurrentMotor, MaxComps)}

InitConcurrent == InitWith(ConcurrentFiles)
SpecConcurrent == InitConcurrent /\ [][Next]_vars

\* --- whole programs: the file may be missing or unparsable; phases in any
\* order of startTime; a compId may be missing from the registry ---
PhaseStartTimes == {0, 1, 3}
PhaseBodies ==
    { <<>>,
      <<CompObj("Drain Pump", 0, 2, NULL)>>,
      <<CompObj("Cold Valve", 1, 2, NULL),
        CompObj("Motor", 0, 3, MotorObj(<<StepObj(1, "cw", 1), StepObj(1, "ccw", 0)>>, NULL))>>,
      <<CompObj("Heater", 0, 1, NULL)>>,
      <<CompObj("Agitator", 1, 2, MotorObj(<<StepObj(1, "ccw", 1)>>, <<2>>))>> }
ProgramPhases == {PhaseObj("P", st, body) : st \in PhaseStartTimes, body \in PhaseBodies}
ProgramFiles ==
    {NoFile, BadJson} \cup {JsonFile(root) : root \in SeqsUpTo(ProgramPhases, MaxPhases)}

Init == InitWith(ProgramFiles)
Spec == Init /\ [][Next]_vars

\* --- whole programs, with a heap that may be exhausted when a component is
\* launched ---
FaultNext ==
    \/ XTaskCreateFails
    \/ MallocFails
NextFault == Next \/ FaultNext
SpecFault == Init /\ [][NextFault]_vars

\* FreeRTOS runs every ready task of the (equal) priority in turn, and the tick
\* interrupt wakes the delayed tasks
FairSpec == Spec /\ WF_vars(Next)

----------------------------------------------------------------------------
(* Properties *)

IsMotorTask(t) == tasks[t].c.motorConfig # NULL
TaskIds == 1..Len(tasks)

GpioEvents(log) == SelectSeq(log, LAMBDA e : e.op = "gpio")

RECURSIVE SumSeq(_)
SumSeq(q) == IF q = <<>> THEN 0 ELSE q[1] + SumSeq(Tail(q))

\* the run slices (line 154) and pause slices (line 168) a motor task has slept
Slices(log) == SelectSeq(log, LAMBDA e : e.op = "delay" /\ e.line \in {154, 168})
SliceSum(log) == SumSeq([k \in 1..Len(Slices(log)) |-> Slices(log)[k].val])

\* repeatTimes * sum of (stepTime + pauseTime), over the integers
Untruncated(c) ==
    c.motorConfig[1].repeatTimes *
        SumSeq([k \in 1..c.motorConfig[1].pattern_count |->
                   c.motorConfig[1].pattern[k].stepTime
                   + c.motorConfig[1].pattern[k].pauseTime])

Min(a, b) == IF a <= b THEN a ELSE b

\* C1: when a motor executor has ended, the last line write it made is the
\* write that drives its enable line Inactive (off), and the line is off
C1_MotorDisabledLast ==
    \A t \in TaskIds :
        (IsMotorTask(t) /\ tasks[t].pc = "done") =>
            LET g == GpioEvents(tasks[t].log)
            IN  /\ g # <<>>
                /\ g[Len(g)].pin = tasks[t].c.pin
                /\ g[Len(g)].val = OFF
                /\ level[tasks[t].c.pin] = OFF

\* C1 witness: an engine that ended because the budget ran out in mid-pattern
C1_Witness ==
    \E t \in TaskIds :
        /\ IsMotorTask(t) /\ tasks[t].pc = "done"
        /\ tasks[t].c.duration > 0
        /\ tasks[t].total_runtime = tasks[t].c.duration
        /\ tasks[t].repeat < tasks[t].c.motorConfig[1].repeatTimes
        /\ Untruncated(tasks[t].c) > tasks[t].c.duration

\* C2: when the engine has ended, the run and pause slices it slept add up to
\* the budget if the untruncated pattern exceeds it, else to the untruncated total
C2_SlicesSumToBudget ==
    \A t \in TaskIds :
        (IsMotorTask(t) /\ tasks[t].pc = "done") =>
            SliceSum(tasks[t].log) = Min(tasks[t].c.duration, Untruncated(tasks[t].c))

\* C2 witness: a truncated run whose last slice was shortened
C2_Witness ==
    \E t \in TaskIds :
        /\ IsMotorTask(t) /\ tasks[t].pc = "done"
        /\ Untruncated(tasks[t].c) > tasks[t].c.duration
        /\ SliceSum(tasks[t].log) = tasks[t].c.duration
        /\ \E k \in 1..Len(tasks[t].log) :
              /\ tasks[t].log[k].op = "delay" /\ tasks[t].log[k].line = 168
              /\ tasks[t].log[k].val = 1

\* C6 (as claimed): every write of the direction line is followed, with no
\* suspension in between, by the write that drives the enable line Active
C6_DirectionOnlyBeforeEnable ==
    \A t \in TaskIds :
        IsMotorTask(t) =>
            \A k \in 1..Len(tasks[t].log) :
                (/\ tasks[t].log[k].op = "gpio"
                 /\ tasks[t].log[k].pin = MOTOR_DIRECTION_PIN
                 /\ k < Len(tasks[t].log))
                => /\ tasks[t].log[k + 1].op = "gpio"
                   /\ tasks[t].log[k + 1].pin = tasks[t].c.pin
                   /\ tasks[t].log[k + 1].val = ON

\* C10 (as claimed): the run and pause time a motor executor has slept never
\* exceeds its budget, for all uint32_t step, pause and duration values
C10_ElapsedWithinBudget ==
    \A t \in TaskIds :
        IsMotorTask(t) => SliceSum(tasks[t].log) <= tasks[t].c.duration

\* task t alone drives its line: no other task has the same pin, and if the
\* line is the motor direction line no motor engine runs
OnlyUser(t) ==
    /\ tasks[t].c.pin \in Pins
    /\ \A u \in TaskIds \ {t} :
          /\ tasks[u].c.pin # tasks[t].c.pin
          /\ IsMotorTask(u) => tasks[t].c.pin # MOTOR_DIRECTION_PIN

\* a history entry is the write of val to pin at time at
IsWrite(e, pin, val, at) == e.op = "gpio" /\ e.pin = pin /\ e.val = val /\ e.at = at

\* C3: an executor writes no line before its start offset has elapsed since it
\* was created; a simple executor's writes are exactly: Active at start, then
\* Inactive at start + duration; its line is off before the first and after the
\* second write
C3_StartOffsetRespected ==
    \A t \in TaskIds :
        LET c == tasks[t].c
            g == GpioEvents(tasks[t].log)
            t0 == tasks[t].created
        IN  /\ \A k \in 1..Len(g) : g[k].at >= t0 + c.start
            /\ ~IsMotorTask(t) =>
                  /\ tasks[t].pc \in {"start", "simple_on"} => g = <<>>
                  /\ tasks[t].pc = "simple_off" =>
                        Len(g) = 1 /\ IsWrite(g[1], c.pin, ON, t0 + c.start)
                  /\ tasks[t].pc = "done" =>
                        /\ Len(g) = 2
                        /\ IsWrite(g[1], c.pin, ON, t0 + c.start)
                        /\ IsWrite(g[2], c.pin, OFF, t0 + c.start + c.duration)
                  /\ OnlyUser(t) =>
                        level[c.pin] = IF tasks[t].pc = "simple_off" THEN ON ELSE OFF

\* C3 witness: a simple executor with a start offset has ended next to a motor
\* executor with a start offset that has written its lines
C3_Witness ==
    \E t, u \in TaskIds :
        /\ ~IsMotorTask(t) /\ tasks[t].pc = "done" /\ tasks[t].c.start > 0
        /\ OnlyUser(t)
        /\ IsMotorTask(u) /\ tasks[u].c.start > 0 /\ GpioEvents(tasks[u].log) # <<>>

Max(a, b) == IF a >= b THEN a ELSE b

\* the largest start + duration of the components of a loaded phase, 0 if none
RECURSIVE MaxFinish(_)
MaxFinish(comps) ==
    IF comps = <<>> THEN 0
    ELSE Max(comps[1].start + comps[1].duration, MaxFinish(Tail(comps)))

Sleeps253 == SelectSeq(mlog, LAMBDA e : e.op = "delay" /\ e.line = 253)

\* C4: the phase_duration run_phase has when it goes to sleep (line 253) is the
\* maximum of start + duration over the phase's components, 0 for none, and
\* the sleep is requested for that time plus the buffer
C4_PhaseDurationIsMax ==
    app.pc = "phase_done" =>
        LET want == MaxFinish(program_phases[app.i + 1].components)
        IN  /\ app.phase_duration = want
            /\ Sleeps253[Len(Sleeps253)].val = (want + PHASE_BUFFER_MS) % UINT32_MOD

\* C4 witness: a phase whose first component ends last
C4_Witness ==
    /\ app.pc = "phase_done"
    /\ program_phases[app.i + 1].num_components = 2
    /\ program_phases[app.i + 1].components[1].start
         + program_phases[app.i + 1].components[1].duration
       > program_phases[app.i + 1].components[2].start
         + program_phases[app.i + 1].components[2].duration
    /\ app.phase_duration > INT_MAX

\* the startTime of the phase before phase i (0-based), 0 for the first
PrevStart(i) == IF i = 0 THEN 0 ELSE program_phases[i].startTime

Delays421 == SelectSeq(mlog, LAMBDA e : e.op = "delay" /\ e.line = 421)

\* C5: before phase i's executors are launched the scheduler has computed
\* this_delay = max(0, startTime - lastPhaseStart), never negative, and has
\* slept exactly that long (no vTaskDelay call for 0)
C5_InterPhaseDelay ==
    (app.pc = "run_phase" /\ app.j = 0) =>
        LET st == program_phases[app.i + 1].startTime
            last == PrevStart(app.i)
        IN  /\ app.this_delay = Max(0, st - last)
            /\ app.this_delay >= 0
            /\ st <= last => app.this_delay = 0
            /\ IF app.this_delay > 0
               THEN /\ mlog # <<>>
                    /\ mlog[Len(mlog)] = [op |-> "delay", line |-> 421, pin |-> 0,
                                          val |-> app.this_delay,
                                          at |-> app.wake - app.this_delay]
               ELSE mlog = <<>> \/ mlog[Len(mlog)].line # 421

\* C5 witness: a second phase that starts earlier than the first is about to launch
C5_Witness ==
    /\ app.pc = "run_phase" /\ app.j = 0 /\ app.i = 1
    /\ program_phases[2].startTime < program_phases[1].startTime
    /\ app.this_delay = 0
    /\ Len(Delays421) = 1

\* the document names a compId that is not in the registry
HasUnknownCompId(f) ==
    \E k \in 1..Len(f.root) : \E j \in 1..Len(f.root[k].components) :
        map_name_to_pin(f.root[k].components[j].compId) = -1

\* C7 (as claimed): with a compId that is not in the registry the load fails
\* (app_main returns), no executor is created and no line is driven
C7_UnknownCompIdRejected ==
    HasUnknownCompId(file) =>
        /\ app.pc \in {"load", "returned"}
        /\ tasks = <<>>
        /\ \A p \in Pins : level[p] = FLOATING

\* the number of component instructions of the loaded program
RECURSIVE CountComps(_)
CountComps(phases) ==
    IF phases = <<>> THEN 0 ELSE phases[1].num_components + CountComps(Tail(phases))

Completed ==
    /\ app.pc = "idle"
    /\ app.i = NUM_PHASES
    /\ Len(tasks) = CountComps(program_phases)
    /\ \A t \in TaskIds : tasks[t].pc = "done"

\* C8: once the configuration is loaded, the scheduler eventually has processed
\* every phase and is idle, with one executor per component instruction, all ended
C8_RunsToCompletion == (app.pc = "gpio_init") ~> Completed

\* C8 witness: a program with an executor whose pin is invalid has completed
C8_Witness ==
    /\ Completed
    /\ \E t \in TaskIds : tasks[t].c.pin = -1 /\ IsMotorTask(t)
    /\ \E t \in TaskIds : tasks[t].c.pin = -1 /\ ~IsMotorTask(t)

\* the (phase, component) pairs of the program in list order
RECURSIVE LaunchOrder(_, _)
LaunchOrder(phases, k) ==
    IF k > Len(phases) THEN <<>>
    ELSE [j \in 1..phases[k].num_components |-> <<k - 1, j - 1>>]
         \o LaunchOrder(phases, k + 1)

Calls(log) == [k \in 1..Len(log) |-> <<log[k].line, log[k].val>>]

\* C11: when the time slept has reached the budget at the end of a run slice
\* (line 154), the engine makes no further call but the final disable of line
\* 181: no pause-time disable, no pause (not even of length 0), no further
\* step or repeat.  The 2500/1000/500/3 instruction (in units of 500 ms)
\* executes run, pause, run, stop and leaves the enable line off
C11_StopsAtExactBudget ==
    \A t \in TaskIds :
        IsMotorTask(t) =>
            LET log == tasks[t].log
                c == tasks[t].c
            IN  /\ \A k \in 1..Len(log) :
                      (/\ log[k].op = "delay" /\ log[k].line = 154
                       /\ SliceSum(SubSeq(log, 1, k)) >= c.duration)
                      => \/ k = Len(log) /\ tasks[t].pc \in {"motor_ran", "motor_stop"}
                         \/ /\ k + 1 = Len(log)
                            /\ log[k + 1] = [op |-> "gpio", line |-> 181, pin |-> c.pin,
                                             val |-> OFF, at |-> log[k].at + log[k].val]
                            /\ tasks[t].pc = "done"
                /\ (c = LoadComponent(BudgetExactComp) /\ tasks[t].pc = "done") =>
                      /\ Calls(log) = << <<131, ON>>, <<146, 0>>, <<154, 2>>,
                                         <<162, OFF>>, <<168, 1>>, <<173, ON>>,
                                         <<146, 0>>, <<154, 2>>, <<181, OFF>> >>
                      /\ level[MOTOR_ON_PIN] = OFF

\* C11 witness: the 2500/1000/500/3 instruction has ended in its second repeat,
\* its last run slice unclipped and ending exactly at the budget
C11_Witness ==
    \E t \in TaskIds :
        /\ tasks[t].c = LoadComponent(BudgetExactComp)
        /\ tasks[t].pc = "done"
        /\ tasks[t].total_runtime = tasks[t].c.duration
        /\ tasks[t].repeat < tasks[t].c.motorConfig[1].repeatTimes
        /\ tasks[t].slice = tasks[t].c.motorConfig[1].pattern[1].stepTime

\* C12: when the configuration file cannot be opened or parsed, app_main
\* returns: no line is configured or driven, no phase is launched (no delay,
\* no program), and no executor is created
C12_FailedLoadInert ==
    file \in {NoFile, BadJson} =>
        /\ app.pc \in {"load", "returned"}
        /\ \A p \in Pins : level[p] = FLOATING
        /\ program_phases = <<>> /\ NUM_PHASES = 0
        /\ tasks = <<>>
        /\ mlog = <<>>

\* C12 witness: app_main has returned after a failed load
C12_Witness == app.pc = "returned" /\ file \in {NoFile, BadJson}

\* the scheduler's attempts to launch a component: xTaskCreate calls
Launches == SelectSeq(mlog, LAMBDA e : e.op \in {"create", "create_failed"})

\* C13 (as claimed): after a launch has failed for lack of memory the scheduler
\* launches no further component and no further phase
C13_ExhaustionAborts ==
    \A k \in 1..Len(mlog) :
        mlog[k].op = "create_failed" =>
            \A m \in (k + 1)..Len(mlog) :
                /\ mlog[m].op \notin {"create", "create_failed"}
                /\ mlog[m].line \notin {253, 421}

\* the motor engine of task t has driven its enable line Active (line 131)
Executed(t) ==
    \E k \in 1..Len(tasks[t].log) :
        tasks[t].log[k].op = "gpio" /\ tasks[t].log[k].line = 131

LastCallAt(t) ==
    IF tasks[t].log = <<>> THEN tasks[t].created
    ELSE tasks[t].log[Len(tasks[t].log)].at

C16_EnableFollowsSlices ==
    \A t \in TaskIds :
        IsMotorTask(t) =>
            LET log == tasks[t].log
                c == tasks[t].c
            IN  /\ tasks[t].pc = "motor_ran" =>
                      /\ level[c.pin] = ON
                      /\ log[Len(log)].line = 154
                /\ tasks[t].pc = "motor_paused" =>
                      /\ level[c.pin] = OFF
                      /\ log[Len(log)].line = 168
                      /\ c.motorConfig[1].pattern[tasks[t].i + 1].pauseTime > 0
                /\ \A k \in 1..Len(log) :
                      /\ log[k].line = 173 =>
                            /\ SliceSum(SubSeq(log, 1, k)) < c.duration
                            /\ log[k - 1].line = 168
                      /\ (log[k].line = 168 /\ k < Len(log)) =>
                            log[k + 1].line =
                                IF SliceSum(SubSeq(log, 1, k)) < c.duration
                                THEN 173 ELSE 181

\* C16 witness: an engine that was enabled again after its first pause and not
\* after its second, which used up the budget
C16_Witness ==
    \E t \in TaskIds :
        /\ IsMotorTask(t) /\ tasks[t].pc = "done"
        /\ \E k \in 1..Len(tasks[t].log) : tasks[t].log[k].line = 173
        /\ Len(tasks[t].log) >= 2
        /\ tasks[t].log[Len(tasks[t].log) - 1].line = 168
        /\ tasks[t].log[Len(tasks[t].log) - 1].val > 0

\* the lines the executor t writes: its own line, and for a motor instruction
\* the motor direction line
Lines(t) ==
    (IF tasks[t].c.pin \in Pins THEN {tasks[t].c.pin} ELSE {})
    \cup (IF IsMotorTask(t) THEN {MOTOR_DIRECTION_PIN} ELSE {})

\* the level task t has written last to line p, off (the initial level) if none
LastWritten(t, p) ==
    LET g == SelectSeq(tasks[t].log, LAMBDA e : e.op = "gpio" /\ e.pin = p)
    IN  IF g = <<>> THEN OFF ELSE g[Len(g)].val

\* the other executors of task t's phase
Peers(t) == {u \in TaskIds \ {t} : tasks[u].phase = tasks[t].phase}

\* C17 (as claimed): an executor whose actuator differs from the actuator of
\* every other executor of its phase is not disturbed: each of its lines, the
\* direction line of a motor instruction included, has the level the executor
\* wrote to it last
C17_DistinctActuatorsIndependent ==
    \A t \in TaskIds :
        (/\ tasks[t].c.pin \in Pins
         /\ \A u \in Peers(t) : tasks[u].c.pin # tasks[t].c.pin)
        => \A p \in Lines(t) : level[p] = LastWritten(t, p)

\* C17 (amended): an executor that shares none of its lines (own line, and
\* direction line for a motor instruction) with another executor of its phase
\* is not disturbed: each of its lines has the level the executor wrote last
C17_DisjointLinesIndependent ==
    \A t \in TaskIds :
        (\A u \in Peers(t) : Lines(u) \cap Lines(t) = {})
        => \A p \in Lines(t) : level[p] = LastWritten(t, p)

\* C17 witness: a motor executor runs counter-clockwise while a valve's
\* executor, launched in the same phase, has opened its valve
C17_Witness ==
    \E t, u \in TaskIds :
        /\ u \in Peers(t) /\ Lines(u) \cap Lines(t) = {}
        /\ IsMotorTask(t) /\ tasks[t].pc = "motor_ran"
        /\ ~IsMotorTask(u) /\ tasks[u].pc = "simple_off"
        /\ level[MOTOR_DIRECTION_PIN] = DirectionLevel("ccw")
        /\ level[tasks[t].c.pin] = ON /\ level[tasks[u].c.pin] = ON

\* the program time at which phase i (0-based) is launched, from the loaded
\* program alone: the inter-phase delays of phases 0..i, plus phase_duration
\* + 50 ms for each of the phases 0..i-1
RECURSIVE LaunchTime(_)
LaunchTime(i) ==
    Max(0, program_phases[i + 1].startTime - PrevStart(i))
    + (IF i = 0 THEN 0
       ELSE LaunchTime(i - 1) + MaxFinish(program_phases[i].components)
            + PHASE_BUFFER_MS)

\* C18: when run_phase is entered for phase i, and when any executor of phase
\* i is created, the program time is LaunchTime(i) and is not before the
\* phase's startTime
C18_NotBeforeStartOffset ==
    /\ (app.pc = "run_phase" /\ AppReady) =>
          /\ now = LaunchTime(app.i)
          /\ now >= program_phases[app.i + 1].startTime
    /\ \A t \in TaskIds :
          /\ tasks[t].created = LaunchTime(tasks[t].phase)
          /\ tasks[t].created >= program_phases[tasks[t].phase + 1].startTime

\* C18 witness: the second phase's executor was created later than the
\* phase's startTime, after a first phase with components and an earlier start
C18_Witness ==
    /\ NUM_PHASES = 2
    /\ program_phases[1].startTime > 0
    /\ program_phases[2].startTime > program_phases[1].startTime
    /\ program_phases[1].num_components > 0
    /\ \E t \in TaskIds :
          tasks[t].phase = 1 /\ tasks[t].created > program_phases[2].startTime

\* no executor has made a call yet
NoExecutorActed == \A t \in TaskIds : tasks[t].log = <<>>

\* C19: the registry has 8 distinct lines; once the load has succeeded and the
\* initialisation loop has run, and as long as no executor has acted (so in
\* particular when the first executor is created), all 8 are off; before the
\* loop no executor exists
C19_AllLinesOffBeforeFirstLaunch ==
    /\ Cardinality(Pins) = NUM_COMPONENTS
    /\ {MOTOR_ON_PIN, MOTOR_DIRECTION_PIN} \subseteq Pins
    /\ app.pc \in {"load", "gpio_init", "returned"} => tasks = <<>>
    /\ (app.pc \notin {"load", "gpio_init", "returned"} /\ NoExecutorActed) =>
          \A p \in Pins : level[p] = OFF

\* C19 witness: the first executor has just been created and has not run
C19_Witness ==
    /\ app.pc = "run_phase" /\ app.i = 0
    /\ Len(tasks) = 1 /\ tasks[1].pc = "start" /\ tasks[1].log = <<>>
    /\ \A p \in Pins : level[p] = OFF

\* a step leaves every line unchanged that the task taking it does not own:
\* an executor's step changes none but its own lines, a scheduler step after
\* the initialisation loop and a step of the clock change none
FrameStep ==
    /\ \A t \in TaskIds :
          tasks'[t] # tasks[t] =>
              \A p \in Pins \ Lines(t) : level'[p] = level[p]
    /\ (app' # app /\ app.pc # "gpio_init") => level' = level
    /\ now' # now => level' = level

\* C20: in every step, a simple executor changes only its own line, a motor
\* executor only its enable line and the motor direction line, and app_main,
\* once the lines are initialised, changes no line
C20_Frame == [][FrameStep]_vars

\* C20 witness: a motor executor has set the direction line and runs, a
\* valve's executor has opened its valve, every other line is off, and the
\* scheduler sleeps
C20_Witness ==
    \E t, u \in TaskIds :
        /\ IsMotorTask(t) /\ tasks[t].pc = "motor_ran"
        /\ ~IsMotorTask(u) /\ tasks[u].pc = "simple_off"
        /\ app.pc = "phase_done"
        /\ level[MOTOR_DIRECTION_PIN] = DirectionLevel("ccw")
        /\ level[tasks[t].c.pin] = ON /\ level[tasks[u].c.pin] = ON
        /\ \A p \in Pins \ (Lines(t) \cup Lines(u)) : level[p] = OFF

====
